---- MODULE Spec2Model ----
(***************************************************************************)
(* Model of pizzagpt_client.py: PizzaGPTClient.send_request and            *)
(* PizzaGPTService.get_response, one synchronous call at a time.           *)
(* Texts (URLs, exception messages) are sequences of fragments, so that a  *)
(* formatted message is built from its parts as the f-strings build it.    *)
(***************************************************************************)
EXTENDS Integers, Sequences, FiniteSets, TLC

VARIABLES environment, jsonLib, pc, caller, data, url, response, exc,
          apiResponse, clientErr, result, log, posts, calls, clock

vars == <<environment, jsonLib, pc, caller, data, url, response, exc,
          apiResponse, clientErr, result, log, posts, calls, clock>>

\* ---------------------------------------------------------------- bounds
MaxCalls == 2

\* ------------------------------------------------------- program constants
CHAT_COMPLETION == "chatx-completion"

PRODUCTION == "https://www.pizzagpt.it"

STAGING == "https://staging.pizzagpt.it"

DEVELOPMENT == "https://dev.pizzagpt.it"

APIEnvironment == {PRODUCTION, STAGING, DEVELOPMENT}

\* ------------------------------------------------------------ input sets
Questions == {"Hi", "Ciao"}

\* HTTP statuses a reply can carry: success, redirect, client and server errors.
Statuses == {200, 201, 302, 404, 429, 500}

ContentValues == {<<"X">>, <<"Hello!">>}

StatusCodeValues == {429, 503}

MessageValues == {<<"rate limited">>}

ModelValues == {<<"gpt">>}

\* A JSON object is a set of <<key, value>> pairs with at most one pair per key.
JsonObjects ==
    { c \cup s \cup m \cup x :
        c \in {{}} \cup {{<<"content", v>>} : v \in ContentValues},
        s \in {{}} \cup {{<<"statusCode", v>>} : v \in StatusCodeValues},
        m \in {{}} \cup {{<<"message", v>>} : v \in MessageValues},
        x \in {{}} \cup {{<<"model", v>>} : v \in ModelValues} }

\* A reply body: not JSON at all, JSON that is not an object, or a JSON object.
Bodies ==
    {[fmt |-> "text", fields |-> {}], [fmt |-> "nonobj", fields |-> {}]}
    \cup {[fmt |-> "obj", fields |-> f] : f \in JsonObjects}

NoResponse == [present |-> FALSE, status_code |-> 0,
               body |-> [fmt |-> "text", fields |-> {}]]

Resp(s, b) == [present |-> TRUE, status_code |-> s, body |-> b]

NoExc == [cls |-> "none", text |-> <<>>, response |-> NoResponse]

NoResult == [kind |-> "none", status_code |-> 0, message |-> <<>>, value |-> <<>>]

NoAPIResponse == [present |-> FALSE, content |-> <<>>, timestamp |-> 0,
                  raw_response |-> [fmt |-> "text", fields |-> {}]]

\* --------------------------------------------------------- JSON helpers
Has(obj, k) == \E p \in obj : p[1] = k

Lookup(obj, k) == (CHOOSE p \in obj : p[1] = k)[2]

\* dict.get(k, default)
Get(obj, k, default) == IF Has(obj, k) THEN Lookup(obj, k) ELSE default

\* text contains part as a contiguous run of fragments (substring test)
Contains(text, part) ==
    \E i \in 0..(Len(text) - Len(part)) : SubSeq(text, i + 1, i + Len(part)) = part

\* ------------------------------------------------ requests' exception classes
ConnectionErrorClasses == {"ConnectionError", "ConnectTimeout"}

RequestExceptionClasses ==
    ConnectionErrorClasses \cup {"ReadTimeout", "TooManyRedirects", "HTTPError", "JSONDecodeError"}

TypedKinds == {"APIConnectionError", "APIResponseError"}

DefaultTimeout == 30

\* url = f"{self.environment.value}/api/{endpoint.value}"
BuildUrl(env, endpoint) == <<env, "/api/", endpoint>>

\* requests.Response.__bool__ is Response.ok: true iff raise_for_status() would not raise
ResponseTruthy(r) == r.present /\ r.status_code < 400

\* HTTPError text built by raise_for_status
HTTPErrorText(status, u) ==
    <<ToString(status), IF status < 500 THEN " Client Error for url: " ELSE " Server Error for url: ">> \o u

\* exceptions session.post itself can raise
ConnectionCauses == {"Max retries exceeded", "Name or service not known"}

PostExceptions ==
    {[cls |-> c, text |-> <<k>>, response |-> NoResponse] :
        c \in ConnectionErrorClasses, k \in ConnectionCauses}
    \cup {[cls |-> "ReadTimeout",
           text |-> <<"Read timed out. (read timeout=", ToString(DefaultTimeout), ")">>,
           response |-> NoResponse]}
    \cup {[cls |-> "TooManyRedirects", text |-> <<"Exceeded 30 redirects.">>,
           response |-> Resp(302, b)] : b \in Bodies}

LogEntry(who, prefix, text) == [logger |-> who, level |-> "error", text |-> <<prefix>> \o text]

\* str() of a raised error
ErrStr(e) ==
    IF e.kind = "APIResponseError"
    THEN <<"API Error ", ToString(e.status_code), ": ">> \o e.message
    ELSE e.message

APIConnectionError(msg) ==
    [kind |-> "APIConnectionError", status_code |-> 0, message |-> msg, value |-> <<>>]

APIResponseError(status, msg) ==
    [kind |-> "APIResponseError", status_code |-> status, message |-> msg, value |-> <<>>]

Untyped(cls, text) ==
    [kind |-> cls, status_code |-> 0, message |-> text, value |-> <<>>]

\* ------------------------------------------------------------------ Init
Init ==
    /\ environment \in APIEnvironment
    /\ jsonLib \in {"requests-json-error", "plain-value-error"}
    /\ pc = "idle"
    /\ caller = "none"
    /\ data = <<>>
    /\ url = <<>>
    /\ response = NoResponse
    /\ exc = NoExc
    /\ apiResponse = NoAPIResponse
    /\ clientErr = NoResult
    /\ result = NoResult
    /\ log = <<>>
    /\ posts = 0
    /\ calls = 0
    /\ clock = 0

\* ------------------------------------------------------------ call entry
\* Entry of send_request: the URL is built, every per-call local is fresh.
\* log holds the records emitted since the call was entered.
Enter(who, d) ==
    /\ pc \in {"idle", "done"}
    /\ calls < MaxCalls
    /\ calls' = calls + 1
    /\ caller' = who
    /\ data' = d
    /\ url' = BuildUrl(environment, CHAT_COMPLETION)
    /\ response' = NoResponse
    /\ exc' = NoExc
    /\ apiResponse' = NoAPIResponse
    /\ clientErr' = NoResult
    /\ result' = NoResult
    /\ log' = <<>>
    /\ pc' = "post"
    /\ UNCHANGED <<environment, jsonLib, posts, clock>>

\* PizzaGPTService.get_response(question)
GetResponse == \E q \in Questions : Enter("service", <<"question", q>>)

\* PizzaGPTClient.send_request(endpoint, data) called directly
SendRequest == \E q \in Questions : Enter("client", <<"question", q>>)

\* ------------------------------------------------------------ send_request
\* self.session.post(...) answers with a response
PostResponds ==
    /\ pc = "post"
    /\ \E s \in Statuses, b \in Bodies : response' = Resp(s, b)
    /\ posts' = posts + 1
    /\ clock' = clock + 1
    /\ pc' = "raise_for_status"
    /\ UNCHANGED <<environment, jsonLib, caller, data, url, exc, apiResponse,
                   clientErr, result, log, calls>>

\* self.session.post(...) raises
PostRaises ==
    /\ pc = "post"
    /\ \E e \in PostExceptions : exc' = e
    /\ posts' = posts + 1
    /\ clock' = clock + 1
    /\ pc' = "except"
    /\ UNCHANGED <<environment, jsonLib, caller, data, url, response, apiResponse,
                   clientErr, result, log, calls>>

\* response.raise_for_status()
RaiseForStatus ==
    /\ pc = "raise_for_status"
    /\ IF response.status_code >= 400
       THEN /\ exc' = [cls |-> "HTTPError",
                       text |-> HTTPErrorText(response.status_code, url),
                       response |-> response]
            /\ pc' = "except"
       ELSE /\ exc' = exc
            /\ pc' = "json"
    /\ UNCHANGED <<environment, jsonLib, caller, data, url, response, apiResponse,
                   clientErr, result, log, posts, calls, clock>>

\* the exception response.json() raises on a body that is not JSON
JsonError ==
    [cls |-> IF jsonLib = "requests-json-error" THEN "JSONDecodeError" ELSE "ValueError",
     text |-> <<"Expecting value: line 1 column 1 (char 0)">>,
     response |-> NoResponse]

\* response_data = response.json()
ResponseJson ==
    /\ pc = "json"
    /\ IF response.body.fmt = "text"
       THEN /\ exc' = JsonError
            /\ pc' = "except"
       ELSE /\ exc' = exc
            /\ pc' = "build"
    /\ UNCHANGED <<environment, jsonLib, caller, data, url, response, apiResponse,
                   clientErr, result, log, posts, calls, clock>>

\* mutant: the raw payload keeps only the content field
MakeAPIResponseContentOnly(body, now) ==
    [present |-> TRUE, content |-> Lookup(body.fields, "content"), timestamp |-> now,
     raw_response |-> [fmt |-> "obj", fields |-> {p \in body.fields : p[1] = "content"}]]

\* APIResponse(content=response_data['content'], timestamp=now, raw_response=response_data)
MakeAPIResponse(body, now) ==
    [present |-> TRUE, content |-> Lookup(body.fields, "content"),
     timestamp |-> now, raw_response |-> body]

\* return APIResponse(...), or the fault of response_data['content']
BuildAPIResponse ==
    /\ pc = "build"
    /\ IF response.body.fmt = "obj" /\ Has(response.body.fields, "content")
       THEN /\ apiResponse' = MakeAPIResponse(response.body, clock)
            /\ exc' = exc
            /\ pc' = "returned"
       ELSE /\ apiResponse' = apiResponse
            /\ exc' = [cls |-> IF response.body.fmt = "obj" THEN "KeyError" ELSE "TypeError",
                       text |-> <<"content">>, response |-> NoResponse]
            /\ pc' = "except"
    /\ UNCHANGED <<environment, jsonLib, caller, data, url, response,
                   clientErr, result, log, posts, calls, clock>>

\* except requests.exceptions.ConnectionError as e: logging.error(...)
ExceptConnectionError ==
    /\ pc = "except"
    /\ exc.cls \in ConnectionErrorClasses
    /\ log' = Append(log, LogEntry("client", "Connection error: ", exc.text))
    /\ pc' = "raise_connection"
    /\ UNCHANGED <<environment, jsonLib, caller, data, url, response, exc, apiResponse,
                   clientErr, result, posts, calls, clock>>

\* mutant: the message leaves the URL out
FailedToConnectNoUrl(u, e) == APIConnectionError(<<"Failed to connect: ">> \o e.text)

\* APIConnectionError(f"Failed to connect to {url}: {str(e)}")
FailedToConnect(u, e) == APIConnectionError(<<"Failed to connect to ">> \o u \o <<": ">> \o e.text)

\* raise APIConnectionError(f"Failed to connect to {url}: {str(e)}")
RaiseConnectionError ==
    /\ pc = "raise_connection"
    /\ clientErr' = FailedToConnect(url, exc)
    /\ pc' = "client_raised"
    /\ UNCHANGED <<environment, jsonLib, caller, data, url, response, exc, apiResponse,
                   result, log, posts, calls, clock>>

\* except requests.exceptions.RequestException as e: logging.error(...)
ExceptRequestException ==
    /\ pc = "except"
    /\ exc.cls \in RequestExceptionClasses \ ConnectionErrorClasses
    /\ log' = Append(log, LogEntry("client", "Request error: ", exc.text))
    /\ pc' = "handle_request"
    /\ UNCHANGED <<environment, jsonLib, caller, data, url, response, exc, apiResponse,
                   clientErr, result, posts, calls, clock>>

\* mutant: server-declared fields only when both are present
ErrorFromResponseBothOrNone(r, e) ==
    IF r.body.fmt = "text"
    THEN APIResponseError(r.status_code, e.text)
    ELSE IF r.body.fmt = "obj"
    THEN IF Has(r.body.fields, "statusCode") /\ Has(r.body.fields, "message")
         THEN APIResponseError(Lookup(r.body.fields, "statusCode"), Lookup(r.body.fields, "message"))
         ELSE APIResponseError(r.status_code, e.text)
    ELSE Untyped("AttributeError", <<"get">>)

\* the body of the "if response := getattr(e, 'response', None)" branch
ErrorFromResponse(r, e) ==
    IF r.body.fmt = "text"
    THEN APIResponseError(r.status_code, e.text)
    ELSE IF r.body.fmt = "obj"
    THEN APIResponseError(Get(r.body.fields, "statusCode", r.status_code),
                          Get(r.body.fields, "message", e.text))
    ELSE Untyped("AttributeError", <<"get">>)

\* mutant: a request exception without a response is reported as a response error
ClassifyNoResponseAsResponseError(e) ==
    IF e.response.present
    THEN ErrorFromResponse(e.response, e)
    ELSE APIResponseError(0, <<"Request failed: ">> \o e.text)

\* what the RequestException handler raises after logging
ClassifyRequestException(e) ==
    IF ResponseTruthy(e.response)
    THEN ErrorFromResponse(e.response, e)
    ELSE APIConnectionError(<<"Request failed: ">> \o e.text)

\* mutant: a failed request is posted again
HandleRequestExceptionRetry ==
    /\ pc = "handle_request"
    /\ pc' = "post"
    /\ UNCHANGED <<environment, jsonLib, caller, data, url, response, exc, apiResponse,
                   clientErr, result, log, posts, calls, clock>>

\* if response := getattr(e, 'response', None): ... raise APIConnectionError(...)
HandleRequestException ==
    /\ pc = "handle_request"
    /\ clientErr' = ClassifyRequestException(exc)
    /\ pc' = "client_raised"
    /\ UNCHANGED <<environment, jsonLib, caller, data, url, response, exc, apiResponse,
                   result, log, posts, calls, clock>>

\* an exception no except clause of send_request matches leaves it as it is
Uncaught ==
    /\ pc = "except"
    /\ exc.cls \notin RequestExceptionClasses
    /\ clientErr' = Untyped(exc.cls, exc.text)
    /\ pc' = "client_raised"
    /\ UNCHANGED <<environment, jsonLib, caller, data, url, response, exc, apiResponse,
                   result, log, posts, calls, clock>>

\* ------------------------------------------------- what the caller receives
Returned(kind, content) ==
    [kind |-> kind, status_code |-> 0, message |-> <<>>, value |-> content]

\* a direct caller of send_request gets the APIResponse or the error
ClientDone ==
    /\ caller = "client"
    /\ \/ /\ pc = "returned"
          /\ result' = Returned("APIResponse", apiResponse.content)
       \/ /\ pc = "client_raised"
          /\ result' = clientErr
    /\ pc' = "done"
    /\ UNCHANGED <<environment, jsonLib, caller, data, url, response, exc, apiResponse,
                   clientErr, log, posts, calls, clock>>

\* return response.content
ServiceReturn ==
    /\ caller = "service"
    /\ pc = "returned"
    /\ result' = Returned("str", apiResponse.content)
    /\ pc' = "done"
    /\ UNCHANGED <<environment, jsonLib, caller, data, url, response, exc, apiResponse,
                   clientErr, log, posts, calls, clock>>

\* mutant: the service re-raises without logging
ServiceExceptSilent ==
    /\ caller = "service"
    /\ pc = "client_raised"
    /\ clientErr.kind \in TypedKinds
    /\ pc' = "service_raise"
    /\ UNCHANGED <<environment, jsonLib, caller, data, url, response, exc, apiResponse,
                   clientErr, result, log, posts, calls, clock>>

\* except (APIConnectionError, APIResponseError) as e: logging.error(...)
ServiceExcept ==
    /\ caller = "service"
    /\ pc = "client_raised"
    /\ clientErr.kind \in TypedKinds
    /\ log' = Append(log, LogEntry("service", "Failed to get PizzaGPT response: ", ErrStr(clientErr)))
    /\ pc' = "service_raise"
    /\ UNCHANGED <<environment, jsonLib, caller, data, url, response, exc, apiResponse,
                   clientErr, result, posts, calls, clock>>

\* mutant: the service wraps the error in the base kind
ReraiseWrapped(e) == Untyped("PizzaGPTError", ErrStr(e))

\* the bare raise: the caught exception object itself
Reraise(e) == e

ServiceReraise ==
    /\ pc = "service_raise"
    /\ result' = Reraise(clientErr)
    /\ pc' = "done"
    /\ UNCHANGED <<environment, jsonLib, caller, data, url, response, exc, apiResponse,
                   clientErr, log, posts, calls, clock>>

\* any other exception passes through get_response untouched and unlogged
ServicePropagate ==
    /\ caller = "service"
    /\ pc = "client_raised"
    /\ clientErr.kind \notin TypedKinds
    /\ result' = clientErr
    /\ pc' = "done"
    /\ UNCHANGED <<environment, jsonLib, caller, data, url, response, exc, apiResponse,
                   clientErr, log, posts, calls, clock>>

Next ==
    \/ GetResponse
    \/ SendRequest
    \/ PostResponds
    \/ PostRaises
    \/ RaiseForStatus
    \/ ResponseJson
    \/ BuildAPIResponse
    \/ ExceptConnectionError
    \/ RaiseConnectionError
    \/ ExceptRequestException
    \/ HandleRequestException
    \/ Uncaught
    \/ ClientDone
    \/ ServiceReturn
    \/ ServiceExcept
    \/ ServiceReraise
    \/ ServicePropagate

Spec == Init /\ [][Next]_vars

\* ======================================================================
\* Properties
\* ======================================================================
Successes == {"APIResponse", "str"}

Is2xx(r) == r.present /\ r.status_code >= 200 /\ r.status_code <= 299

IsErrorStatus(r) == r.present /\ r.status_code >= 400

ClientFinished == pc \in {"client_raised", "service_raise", "done"}

\* C1: a 2xx reply whose body is a JSON object with content X gives an
\* APIResponse with content X and the whole body as raw_response, and
\* get_response returns X.
C1_SuccessReturnsContent ==
    (pc = "done" /\ Is2xx(response) /\ response.body.fmt = "obj"
        /\ Has(response.body.fields, "content"))
    => /\ apiResponse.present
       /\ apiResponse.content = Lookup(response.body.fields, "content")
       /\ apiResponse.raw_response = response.body
       /\ result.kind = (IF caller = "service" THEN "str" ELSE "APIResponse")
       /\ result.value = Lookup(response.body.fields, "content")

C1_Witness ==
    /\ pc = "done" /\ caller = "service"
    /\ response.status_code = 200
    /\ response.body.fields = {<<"content", <<"Hello!">> >>, <<"model", <<"gpt">> >>}
    /\ result.value = <<"Hello!">>
    /\ apiResponse.raw_response.fields = response.body.fields

\* C2: a 4xx/5xx reply whose JSON body has statusCode and message ends in an
\* APIResponseError carrying exactly those two fields.
C2_ServerFieldsCarried ==
    (pc = "done" /\ IsErrorStatus(response) /\ response.body.fmt = "obj"
        /\ Has(response.body.fields, "statusCode") /\ Has(response.body.fields, "message"))
    => /\ result.kind = "APIResponseError"
       /\ result.status_code = Lookup(response.body.fields, "statusCode")
       /\ result.message = Lookup(response.body.fields, "message")

\* C3: a 4xx/5xx reply whose body is not JSON ends in an APIResponseError with
\* the raw HTTP status code and the text of the request exception.
C3_RawStatusOnNonJson ==
    (pc = "done" /\ IsErrorStatus(response) /\ response.body.fmt = "text")
    => /\ result.kind = "APIResponseError"
       /\ result.status_code = response.status_code
       /\ result.message = exc.text

\* C4: a transport-level failure of the POST ends in an APIConnectionError
\* whose message contains the target URL <base>/api/<endpoint> and the cause,
\* never in an APIResponseError or a returned value.
C4_ConnectionFailure ==
    (ClientFinished /\ exc.cls \in ConnectionErrorClasses)
    => /\ clientErr.kind = "APIConnectionError"
       /\ Contains(clientErr.message, <<environment, "/api/", "chatx-completion">>)
       /\ Contains(clientErr.message, exc.text)
       /\ ~apiResponse.present
       /\ (pc = "done" => result = clientErr)

C4_Witness ==
    /\ pc = "done" /\ exc.cls = "ConnectionError"
    /\ environment = STAGING
    /\ result.kind = "APIConnectionError"
    /\ exc.text = <<"Name or service not known">>

\* C5: every finished call either returns or raises APIConnectionError or
\* APIResponseError, whatever the reply.
C5_EveryOutcomeTyped ==
    pc = "done" => result.kind \in Successes \cup TypedKinds

\* C6: a request exception that carries no response (a timeout among them)
\* ends in an APIConnectionError, never an APIResponseError or another kind.
C6_NoResponseIsConnectionError ==
    (ClientFinished /\ exc.cls \in RequestExceptionClasses /\ ~exc.response.present)
    => /\ clientErr.kind = "APIConnectionError"
       /\ (pc = "done" => result.kind = "APIConnectionError")

C6_Witness ==
    /\ pc = "done" /\ exc.cls = "ReadTimeout"
    /\ result.kind = "APIConnectionError"

\* C7: an APIConnectionError or APIResponseError raised by send_request inside
\* get_response reaches the caller unchanged: same kind, message, status_code.
C7_ServiceReraisesUnchanged ==
    (pc = "done" /\ caller = "service" /\ clientErr.kind \in TypedKinds)
    => /\ result.kind = clientErr.kind
       /\ result.message = clientErr.message
       /\ result.status_code = clientErr.status_code
       /\ result.value = <<>>

C7_Witness ==
    /\ pc = "done" /\ caller = "service"
    /\ clientErr.kind = "APIResponseError" /\ clientErr.status_code = 503
    /\ result = clientErr

\* C8: a call that ends in a connection or request failure has logged one
\* error-level client record before its error exists; a call that succeeds
\* logs nothing; in get_response the service's error record follows the
\* client's and is there before the error reaches the caller.
C8_LogBeforeRaise ==
    /\ (ClientFinished /\ exc.cls \in RequestExceptionClasses)
        => (Len(log) >= 1 /\ log[1].logger = "client" /\ log[1].level = "error")
    /\ (pc = "returned" \/ (pc = "done" /\ result.kind \in Successes)) => log = <<>>
    /\ (pc = "done" /\ caller = "service" /\ result.kind \in TypedKinds)
        => /\ Len(log) = 2
           /\ log[1].logger = "client" /\ log[1].level = "error"
           /\ log[2].logger = "service" /\ log[2].level = "error"
    /\ (pc = "done" /\ caller = "client" /\ result.kind \in TypedKinds) => Len(log) = 1

C8_Witness ==
    /\ pc = "done" /\ caller = "service"
    /\ result.kind = "APIConnectionError"
    /\ Len(log) = 2 /\ log[2].logger = "service"

\* the outcome of a call as a function of its own caller and reply alone
ExpectedOutcome(who, r, e) ==
    IF r.present
    THEN IF r.status_code >= 400
         THEN ClassifyRequestException([cls |-> "HTTPError",
                                        text |-> HTTPErrorText(r.status_code, url),
                                        response |-> r])
         ELSE IF r.body.fmt = "text"
         THEN IF JsonError.cls \in RequestExceptionClasses
              THEN ClassifyRequestException(JsonError)
              ELSE Untyped(JsonError.cls, JsonError.text)
         ELSE IF r.body.fmt = "obj" /\ Has(r.body.fields, "content")
         THEN Returned(IF who = "service" THEN "str" ELSE "APIResponse",
                       Lookup(r.body.fields, "content"))
         ELSE Untyped(IF r.body.fmt = "obj" THEN "KeyError" ELSE "TypeError", <<"content">>)
    ELSE IF e.cls \in ConnectionErrorClasses
         THEN FailedToConnect(url, e)
         ELSE ClassifyRequestException(e)

\* C9: every call issues exactly one POST whatever its outcome; after n calls
\* n POSTs were issued, and a call's outcome is decided by its own reply.
C9_OnePostPerCall ==
    /\ posts = (IF pc = "post" THEN calls - 1 ELSE calls)
    /\ pc = "done" => result = ExpectedOutcome(caller, response, exc)

C9_Witness ==
    /\ pc = "done" /\ calls = 2 /\ posts = 2
    /\ exc.cls = "HTTPError" /\ response.status_code = 500

\* C10 as stated: an APIResponseError built from a JSON object body that lacks
\* statusCode or message carries both fallbacks, the raw HTTP status and the
\* exception text.
C10_BothFallbacksTogether ==
    (ClientFinished /\ clientErr.kind = "APIResponseError" /\ exc.response.body.fmt = "obj"
        /\ ~(Has(exc.response.body.fields, "statusCode") /\ Has(exc.response.body.fields, "message")))
    => /\ clientErr.status_code = exc.response.status_code
       /\ clientErr.message = exc.text

\* C10 amended: each field falls back on its own: status_code is the body's
\* statusCode when present, else the raw HTTP status; message is the body's
\* message when present, else the exception text.
C10_PerFieldFallback ==
    (ClientFinished /\ clientErr.kind = "APIResponseError" /\ exc.response.body.fmt = "obj")
    => /\ clientErr.status_code =
            (IF Has(exc.response.body.fields, "statusCode")
             THEN Lookup(exc.response.body.fields, "statusCode")
             ELSE exc.response.status_code)
       /\ clientErr.message =
            (IF Has(exc.response.body.fields, "message")
             THEN Lookup(exc.response.body.fields, "message")
             ELSE exc.text)

C10_Witness ==
    /\ ClientFinished /\ clientErr.kind = "APIResponseError"
    /\ exc.response.body.fmt = "obj"
    /\ Has(exc.response.body.fields, "statusCode")
    /\ ~Has(exc.response.body.fields, "message")
    /\ clientErr.status_code = 429
    /\ clientErr.message = exc.text

====
